---- MODULE Spec2Model ----
(***************************************************************************)
(* A model of the MultiSelect2 widget of src/multi-select2.js: the DOM     *)
(* subtree each instance builds, its configuration and open/closed state,  *)
(* the listeners it registers, and the handlers the browser dispatches     *)
(* click, keyup, keydown and input events to.                              *)
(***************************************************************************)
EXTENDS Integers, Sequences, FiniteSets, TLC

(***************************************************************************)
(* Bounds of the model.                                                    *)
(***************************************************************************)
\* the longest config.value sequence an event may produce
MaxValueLen == 2
\* the longest text typed into the autocomplete field
MaxText == 2

(***************************************************************************)
(* JavaScript values.  A string is itself; the number n is "#n", so that   *)
(* === between a number and its string form is FALSE, as in JavaScript;    *)
(* undefined is "#undefined".                                              *)
(***************************************************************************)
Undefined == "#undefined"

\* value.toString(), for the strings and numbers the configurations use
toString(v) == IF v = "#0" THEN "0" ELSE IF v = "#7" THEN "7" ELSE v

\* the truthiness test of `if (value)` and of `attributes[key]`
Truthy(v) == v \notin {Undefined, "", "#0"}

\* config.value: undefined, one scalar, or an array of scalars
UndefinedValue == [kind |-> "undefined", str |-> Undefined, arr |-> << >>]
ScalarValue(s) == IF s = Undefined THEN UndefinedValue
                  ELSE [kind |-> "scalar", str |-> s, arr |-> << >>]
ArrayValue(a) == [kind |-> "array", str |-> Undefined, arr |-> a]
TruthyValue(x) == x.kind = "array" \/ (x.kind = "scalar" /\ Truthy(x.str))

(***************************************************************************)
(* Strings that are searched (option labels, filter texts) are sequences   *)
(* of one-character strings.                                               *)
(***************************************************************************)
LowerChar(c) == CASE c = "L" -> "l" [] c = "N" -> "n" [] c = "Y" -> "y"
                  [] c = "P" -> "p" [] c = "S" -> "s" [] OTHER -> c
toLowerCase(s) == [i \in 1..Len(s) |-> LowerChar(s[i])]
includes(s, t) == \E i \in 0..(Len(s) - Len(t)) : SubSeq(s, i + 1, i + Len(t)) = t

First(S) == IF S = {} THEN 0 ELSE CHOOSE i \in S : \A j \in S : i <= j
indexOf(s, x) == First({i \in 1..Len(s) : s[i] = x})
splice(s, i) == SubSeq(s, 1, i - 1) \o SubSeq(s, i + 1, Len(s))
Without(s, x) == IF indexOf(s, x) = 0 THEN s ELSE splice(s, indexOf(s, x))
AddOnce(s, x) == IF indexOf(s, x) = 0 THEN Append(s, x) ELSE s

(***************************************************************************)
(* Configurations.                                                         *)
(***************************************************************************)
Option(label, value, disabled, groupHeader) ==
    [label |-> label, value |-> value, disabled |-> disabled, groupHeader |-> groupHeader]

London == Option(<<"L", "n">>, "Ln", FALSE, FALSE)
NewYork == Option(<<"N", "Y">>, "NY", FALSE, FALSE)
\* the two options of the README's usage without its header
OptsCities == <<London, NewYork>>
\* the README's usage: a disabled group header with the empty value comes first
OptsReadme == <<Option(<<"P", "l">>, "", TRUE, TRUE), London, NewYork>>
\* a group header that is not also disabled, and a disabled ordinary option
OptsGroup == <<Option(<<"P", "l">>, "Pl", FALSE, TRUE), London,
               Option(<<"N", "Y">>, "NY", TRUE, FALSE)>>
\* numeric option values: 7, and 0, which is falsy
OptsNumeric == <<Option(<<"S", "n">>, "#7", FALSE, FALSE),
                 Option(<<"n", "l">>, "#0", FALSE, FALSE)>>
OptionLists == {OptsCities, OptsReadme, OptsGroup, OptsNumeric, << >>}

OptionValues(options) == {options[i].value : i \in 1..Len(options)}

Config(options, multiple, autocomplete, tabSelect, icon, onChange, val) ==
    [options |-> options, multiple |-> multiple, autocomplete |-> autocomplete,
     tabSelect |-> tabSelect, icon |-> icon, onChange |-> onChange, value |-> val]

\* the initial config.value of a page: none, or for a multiple widget no or one
\* option value, for a single one the string form of an option value
InitialValues(options, multiple) ==
    IF multiple
    THEN {UndefinedValue, ArrayValue(<< >>)}
           \cup {ArrayValue(<<v>>) : v \in OptionValues(options)}
    ELSE {UndefinedValue}
           \cup {ScalarValue(toString(v)) : v \in OptionValues(options)}

\* every options list, single and multiple, with every initial value
PlainConfigs ==
    {Config(o, m, FALSE, FALSE, <<"remove">>, TRUE, v) :
        <<o, m, v>> \in {x \in OptionLists \X BOOLEAN \X
                                 UNION {InitialValues(o, m) : o \in OptionLists, m \in BOOLEAN} :
                            x[3] \in InitialValues(x[1], x[2])}}

\* the README's usage as it stands, and widgets with the autocomplete field
AutocompleteConfigs ==
    {Config(OptsReadme, TRUE, TRUE, FALSE, <<"fa", "fa-times">>, TRUE, UndefinedValue)}
      \cup {Config(o, m, TRUE, FALSE, <<"remove">>, TRUE,
                   IF m THEN ArrayValue(<< >>) ELSE UndefinedValue) :
               <<o, m>> \in {OptsReadme, OptsGroup, << >>} \X BOOLEAN}

\* widgets that select on Tab
TabSelectConfigs ==
    {Config(OptsGroup, m, a, TRUE, <<"remove">>, TRUE,
            IF m THEN ArrayValue(<< >>) ELSE UndefinedValue) :
        <<m, a>> \in BOOLEAN \X BOOLEAN}

\* two options and multiple: true, with no value and no icon given
ScenarioConfig == Config(OptsCities, TRUE, FALSE, FALSE, << >>, TRUE, UndefinedValue)

\* that widget, a remove icon of two classes, and widgets without onChange
OtherConfigs ==
    {ScenarioConfig,
     Config(OptsCities, TRUE, FALSE, FALSE, <<"fa", "fa-times">>, TRUE, ArrayValue(<<"Ln">>)),
     Config(OptsCities, TRUE, FALSE, FALSE, <<"remove">>, FALSE, ArrayValue(<< >>)),
     Config(OptsCities, FALSE, FALSE, FALSE, <<"remove">>, FALSE, UndefinedValue)}

Configs == PlainConfigs \cup AutocompleteConfigs \cup TabSelectConfigs \cup OtherConfigs

(***************************************************************************)
(* The state of the page.                                                  *)
(***************************************************************************)
VARIABLES
    cfg,            \* cfg[w]: the configuration widget w was constructed with
    value,          \* value[w]: this._config.value
    opened,         \* opened[w]: this._state.opened
    openedClass,    \* openedClass[w]: the trigger carries multi-select__select--opened
    selectedClass,  \* selectedClass[w]: the option nodes with multi-select__option--selected
    hiddenClass,    \* hiddenClass[w]: the option nodes with multi-select__option--hidden
    chips,          \* chips[w]: the label's child nodes, each the index of the option it renders
    labelText,      \* labelText[w]: the label's own text
    acText,         \* acText[w]: the text in the autocomplete field
    selectClick,    \* selectClick[w]: the click handler is registered on the trigger
    selectKeyup,    \* selectKeyup[w]: the keyup handler is registered on the trigger
    bodyClick,      \* the click handlers registered on document.body, in order
    bodyKeyup,      \* the capturing keyup handlers registered on document.body, in order
    focus,          \* document.activeElement
    onChangeCalls,  \* onChangeCalls[w]: the arguments onChange got during the last event
    threw,          \* the last event (or the construction) ended in an uncaught exception
    ev,             \* the last event dispatched
    prevOpened,     \* prevOpened[w]: opened[w] before the last event
    prevValue       \* prevValue[w]: value[w] before the last event

vars == <<cfg, value, opened, openedClass, selectedClass, hiddenClass, chips, labelText,
          acText, selectClick, selectKeyup, bodyClick, bodyKeyup, focus, onChangeCalls,
          threw, ev, prevOpened, prevValue>>

Widgets == DOMAIN cfg
Options(w) == cfg[w].options
Nodes(w) == 1..Len(Options(w))

(***************************************************************************)
(* The elements of the page: document.body and what lies outside every     *)
(* widget, and per widget the trigger (select), the label, its chips and   *)
(* their icons, the drop icon, the dropdown, the autocomplete field and    *)
(* the option nodes.                                                       *)
(***************************************************************************)
El(w, kind, idx) == [w |-> w, kind |-> kind, idx |-> idx]
Outside == El(0, "outside", 0)
Select(w) == El(w, "select", 0)
Label(w) == El(w, "label", 0)
DropIcon(w) == El(w, "dropIcon", 0)
Autocomplete(w) == El(w, "autocomplete", 0)
OptionNode(w, i) == El(w, "option", i)
Chip(w, j) == El(w, "chip", j)
Icon(w, j) == El(w, "icon", j)

\* data-value of option node i: _setAttributes sets it only for a truthy value
DataValue(o) == IF Truthy(o.value) THEN toString(o.value) ELSE Undefined

\* the page during the run of a handler: the variables it may change, and
\* err, set when the handler has thrown, thrown when any handler of the event has
Page == [value |-> value, opened |-> opened, openedClass |-> openedClass,
         selectedClass |-> selectedClass, hiddenClass |-> hiddenClass, chips |-> chips,
         labelText |-> labelText, acText |-> acText, selectClick |-> selectClick,
         selectKeyup |-> selectKeyup, bodyClick |-> bodyClick, bodyKeyup |-> bodyKeyup,
         focus |-> focus, calls |-> [w \in Widgets |-> << >>],
         err |-> FALSE, thrown |-> FALSE]

Throw(p) == [p EXCEPT !.err = TRUE, !.thrown = TRUE]

(***************************************************************************)
(* Rendering the selection.                                                *)
(***************************************************************************)
\* setText on the label removes its children: a chip that had focus is gone,
\* and document.activeElement falls back to document.body
setText(p, w, text) ==
    [p EXCEPT !.labelText[w] = text, !.chips[w] = << >>,
              !.focus = IF p.focus.w = w /\ p.focus.kind = "chip" THEN Outside ELSE p.focus]

_selectOption(p, w, i, manual) ==
    LET p1 == setText(p, w, Options(w)[i].label)
    IN IF cfg[w].onChange /\ manual
       THEN [p1 EXCEPT !.calls[w] = Append(@, ScalarValue(Options(w)[i].value))]
       ELSE p1

_selectOptions(p, w, options, manual) ==
    LET p1 == [setText(p, w, << >>) EXCEPT !.chips[w] = options]
    IN IF cfg[w].onChange /\ manual
       THEN [p1 EXCEPT !.calls[w] = Append(@, p1.value[w])]
       ELSE p1

\* this._config.options.find(_option => _option.value === _value): 0 when none
FindOption(w, v) == First({i \in Nodes(w) : Options(w)[i].value = v})
\* this._config.options.find(_option => _option.value.toString() === this._config.value)
FindOptionByString(w, v) == First({i \in Nodes(w) : toString(Options(w)[i].value) = v})
\* this._options.find(_option => _option.get().dataset.value === option.value.toString())
FindNode(w, i) ==
    First({j \in Nodes(w) : DataValue(Options(w)[j]) = toString(Options(w)[i].value)})

\* the multiple branch of _setValue, after config.value is set and the
\* selected class stripped
RenderMultiple(p, w, manual) ==
    IF p.value[w].kind # "array"
    THEN Throw(p)
    ELSE LET arr == p.value[w].arr
             option(k) == FindOption(w, arr[k])
             bad == First({k \in 1..Len(arr) :
                              option(k) = 0 \/ FindNode(w, option(k)) = 0})
             \* the map throws at element bad, before it marks that element's node
             done == IF bad = 0 THEN Len(arr) ELSE bad - 1
             p1 == [p EXCEPT !.selectedClass[w] =
                                 @ \cup {FindNode(w, option(k)) : k \in 1..done}]
         IN IF bad # 0
            THEN Throw(p1)
            ELSE _selectOptions(p1, w, [k \in 1..Len(arr) |-> option(k)], manual)

\* the single branch of _setValue falling back to the first option, as a
\* native select does, when config.value is not set
RenderSingle_FirstByDefault(p, w, manual) ==
    IF Len(Options(w)) = 0
    THEN p
    ELSE LET i == IF TruthyValue(p.value[w])
                  THEN FindOptionByString(w, p.value[w].str) ELSE 1
         IN IF i = 0 \/ FindNode(w, i) = 0
            THEN Throw(p)
            ELSE _selectOption([p EXCEPT !.selectedClass[w] = @ \cup {FindNode(w, i)}],
                               w, i, manual)

\* the single branch of _setValue
RenderSingle(p, w, manual) ==
    IF Len(Options(w)) = 0
    THEN p
    ELSE IF ~TruthyValue(p.value[w])
    THEN p
    ELSE LET i == FindOptionByString(w, p.value[w].str)
         IN IF i = 0 \/ FindNode(w, i) = 0
            THEN Throw(p)
            ELSE _selectOption([p EXCEPT !.selectedClass[w] = @ \cup {FindNode(w, i)}],
                               w, i, manual)

\* _setValue without the loop that strips the selected class
_setValue_NoStrip(p, w, val, manual, unselected) ==
    IF TruthyValue(val) /\ ~unselected /\ cfg[w].multiple /\ p.value[w].kind # "array"
    THEN Throw(p)
    ELSE LET v1 == IF TruthyValue(val) /\ ~unselected
                   THEN IF cfg[w].multiple
                        THEN ArrayValue(Append(p.value[w].arr, val.str))
                        ELSE val
                   ELSE IF TruthyValue(val) /\ unselected THEN val
                   ELSE p.value[w]
             p1 == [p EXCEPT !.value[w] = v1]
         IN IF cfg[w].multiple
            THEN RenderMultiple(p1, w, manual)
            ELSE RenderSingle(p1, w, manual)

_setValue(p, w, val, manual, unselected) ==
    IF TruthyValue(val) /\ ~unselected /\ cfg[w].multiple /\ p.value[w].kind # "array"
    THEN Throw(p)
    ELSE LET v1 == IF TruthyValue(val) /\ ~unselected
                   THEN IF cfg[w].multiple
                        THEN ArrayValue(Append(p.value[w].arr, val.str))
                        ELSE val
                   ELSE IF TruthyValue(val) /\ unselected THEN val
                   ELSE p.value[w]
             p1 == [p EXCEPT !.value[w] = v1, !.selectedClass[w] = {}]
         IN IF cfg[w].multiple
            THEN RenderMultiple(p1, w, manual)
            ELSE RenderSingle(p1, w, manual)

\* _unselectOption without the test of index: splice(-1, 1) drops the last element
_unselectOption_NoIndexTest(p, w, v) ==
    IF p.value[w].kind # "array" \/ v = Undefined
    THEN Throw(p)
    ELSE LET arr == p.value[w].arr
             newValue == IF indexOf(arr, v) = 0
                         THEN SubSeq(arr, 1, Len(arr) - 1)
                         ELSE splice(arr, indexOf(arr, v))
         IN _setValue(p, w, ArrayValue(newValue), TRUE, TRUE)

\* _unselectOption called with a value (event.target is then undefined)
_unselectOption(p, w, v) ==
    IF p.value[w].kind # "array" \/ v = Undefined
    THEN Throw(p)
    ELSE _setValue(p, w, ArrayValue(Without(p.value[w].arr, v)), TRUE, TRUE)


(***************************************************************************)
(* Opening and closing.                                                    *)
(***************************************************************************)
_openDropdown(p, w) ==
    LET p1 == [p EXCEPT !.openedClass[w] = TRUE,
                        !.bodyClick = AddOnce(@, w),
                        !.selectClick[w] = FALSE,
                        !.bodyKeyup = AddOnce(@, w),
                        !.selectKeyup[w] = FALSE,
                        !.opened[w] = TRUE]
    IN IF cfg[w].autocomplete
       THEN [p1 EXCEPT !.focus = Autocomplete(w)]
       ELSE IF Len(Options(w)) > 0
       THEN [p1 EXCEPT !.focus = OptionNode(w, 1)]
       \* firstElementChild is null
       ELSE Throw(p1)

\* _closeDropdown without giving the focus back to the trigger
_closeDropdown_NoFocus(p, w) ==
    [p EXCEPT !.openedClass[w] = FALSE,
              !.bodyClick = Without(@, w),
              !.selectClick[w] = TRUE,
              !.bodyKeyup = AddOnce(@, w),
              !.selectKeyup[w] = FALSE,
              !.opened[w] = FALSE]

_closeDropdown(p, w) ==
    [p EXCEPT !.openedClass[w] = FALSE,
              !.bodyClick = Without(@, w),
              !.selectClick[w] = TRUE,
              \* the capturing keyup listener is added again, never removed
              !.bodyKeyup = AddOnce(@, w),
              !.selectKeyup[w] = FALSE,
              !.focus = Select(w),
              !.opened[w] = FALSE]

\* _closeAllLists that leaves the other triggers as they are
_closeAllLists_Skipped(p, w) == p

_closeAllLists(p, w) ==
    [p EXCEPT !.openedClass = [x \in Widgets |-> IF x = w THEN @[x] ELSE FALSE]]

(***************************************************************************)
(* Clicks.                                                                 *)
(***************************************************************************)
\* the class tokens of the trigger, in the order they were added
SelectClasses(p, w) ==
    <<"multi-select__select">>
      \o (IF cfg[w].multiple THEN <<"multi-select__select--multiple">> ELSE << >>)
      \o (IF p.openedClass[w] THEN <<"multi-select__select--opened">> ELSE << >>)

\* event.target.parentElement.classList[1], as the string it concatenates to
ParentSecondClass(p, t) ==
    IF t.kind \in {"label", "dropIcon", "optionsDiv"} /\ Len(SelectClasses(p, t.w)) > 1
    THEN SelectClasses(p, t.w)[2]
    ELSE "undefined"

\* event.target.tagName === 'I' && event.target.classList.contains(this._config.icon);
\* contains() of a string with a space in it is false
IsIconTag(w, t) ==
    /\ Len(cfg[w].icon) = 1
    /\ \/ t.kind = "icon" /\ cfg[t.w].icon = cfg[w].icon
       \/ t.kind = "dropIcon"
          /\ cfg[w].icon[1] \in {"fa", "fa-caret-down", "multi-select__drop_icon"}

\* dataset.value of an element: an option node's, a chip icon's, else undefined
Dataset(p, t) ==
    IF t.kind = "option" THEN DataValue(Options(t.w)[t.idx])
    ELSE IF t.kind = "icon" THEN DataValue(Options(t.w)[p.chips[t.w][t.idx]])
    ELSE Undefined

\* this._options.find(_option => _option.get() === event.target)
IsOwnOption(w, t) == t.kind = "option" /\ t.w = w

\* an option node that never gets data-disabled
DataDisabled_Unset(o) == FALSE

\* dataset.disabled of option node i: set only when the option is flagged disabled
DataDisabled(o) == o.disabled

\* _handleClick without the early return for a disabled option: it falls
\* through to _closeDropdown
_handleClick_ClosesOnDisabled(p, w, t) ==
    LET p1 == _closeAllLists(p, w)
    IN IF t.kind = "autocomplete"
       THEN p1
       ELSE IF p1.opened[w]
       THEN IF IsOwnOption(w, t) /\ ~DataDisabled(Options(w)[t.idx])
            THEN LET p2 == _setValue(p1, w, ScalarValue(Dataset(p1, t)), TRUE, FALSE)
                 IN IF p2.err THEN p2 ELSE _closeDropdown(p2, w)
            ELSE _closeDropdown(p1, w)
       ELSE IF cfg[w].icon = <<"fa", ParentSecondClass(p1, t)>>
       THEN _unselectOption(p1, w, Undefined)
       ELSE IF IsIconTag(w, t)
       THEN _unselectOption(p1, w, Dataset(p1, t))
       ELSE _openDropdown(p1, w)

_handleClick(p, w, t) ==
    LET p1 == _closeAllLists(p, w)
    IN IF t.kind = "autocomplete"
       THEN p1
       ELSE IF p1.opened[w]
       THEN IF IsOwnOption(w, t)
            THEN IF ~DataDisabled(Options(w)[t.idx])
                 THEN LET p2 == _setValue(p1, w, ScalarValue(Dataset(p1, t)), TRUE, FALSE)
                      IN IF p2.err THEN p2 ELSE _closeDropdown(p2, w)
                 ELSE p1
            ELSE _closeDropdown(p1, w)
       ELSE IF cfg[w].icon = <<"fa", ParentSecondClass(p1, t)>>
       THEN _unselectOption(p1, w, Undefined)
       ELSE IF IsIconTag(w, t)
       THEN _unselectOption(p1, w, Dataset(p1, t))
       ELSE _openDropdown(p1, w)


(***************************************************************************)
(* Keys.                                                                   *)
(***************************************************************************)
NoKey == [handled |-> FALSE, openKey |-> FALSE, closeKey |-> FALSE, moveKey |-> FALSE,
          topKey |-> FALSE, bottomKey |-> FALSE, downKey |-> FALSE, upKey |-> FALSE,
          selectKey |-> FALSE, selectedMoveKey |-> FALSE, leftKey |-> FALSE,
          rightKey |-> FALSE, deleteKey |-> FALSE]

\* the switch on event.key; the keyCode branch is taken only when event.key is
\* undefined and compares the numeric keyCode with names, so it classifies nothing
KeyFlags(key) ==
    CASE key = "Enter" ->
           [NoKey EXCEPT !.handled = TRUE, !.openKey = TRUE, !.closeKey = TRUE,
                         !.selectKey = TRUE]
      [] key \in {" ", "Spacebar"} ->
           [NoKey EXCEPT !.handled = TRUE, !.openKey = TRUE]
      [] key \in {"Escape", "Esc", "Tab"} ->
           [NoKey EXCEPT !.handled = TRUE, !.closeKey = TRUE]
      [] key \in {"ArrowDown", "Down"} ->
           [NoKey EXCEPT !.handled = TRUE, !.moveKey = TRUE, !.downKey = TRUE]
      [] key \in {"ArrowUp", "Up"} ->
           [NoKey EXCEPT !.handled = TRUE, !.moveKey = TRUE, !.upKey = TRUE]
      [] key \in {"ArrowLeft", "Left"} ->
           [NoKey EXCEPT !.handled = TRUE, !.leftKey = TRUE, !.closeKey = TRUE,
                         !.selectedMoveKey = TRUE]
      [] key \in {"ArrowRight", "Right"} ->
           [NoKey EXCEPT !.handled = TRUE, !.rightKey = TRUE, !.closeKey = TRUE,
                         !.selectedMoveKey = TRUE]
      [] key \in {"Delete", "Del", "Backspace"} ->
           [NoKey EXCEPT !.handled = TRUE, !.deleteKey = TRUE, !.selectedMoveKey = TRUE]
      [] key \in {"Home", "PageUp"} ->
           [NoKey EXCEPT !.handled = TRUE, !.moveKey = TRUE, !.topKey = TRUE,
                         !.selectedMoveKey = TRUE]
      [] key \in {"End", "PageDown"} ->
           [NoKey EXCEPT !.handled = TRUE, !.moveKey = TRUE, !.bottomKey = TRUE,
                         !.selectedMoveKey = TRUE]
      [] OTHER -> NoKey

\* the children of the dropdown, in document order
DropdownChildren(w) ==
    (IF cfg[w].autocomplete THEN <<Autocomplete(w)>> ELSE << >>)
      \o [i \in Nodes(w) |-> OptionNode(w, i)]

\* an element and its siblings, in document order: the dropdown's children or
\* the label's chips; the trigger is the only child of its container
Siblings(p, e) ==
    IF e.kind \in {"autocomplete", "option"} THEN DropdownChildren(e.w)
    ELSE IF e.kind = "chip" THEN [j \in 1..Len(p.chips[e.w]) |-> Chip(e.w, j)]
    ELSE <<e>>

\* the test a move key applies to a sibling before it gives it focus
Focusable(p, e) ==
    ~(/\ e.kind = "option"
      /\ \/ e.idx \in p.selectedClass[e.w]
         \/ e.idx \in p.hiddenClass[e.w]
         \/ Options(e.w)[e.idx].groupHeader
         \/ DataDisabled(Options(e.w)[e.idx]))

\* the first element of `from`, walking by `step`, that passes the test
Walk(p, sibs, from, step) ==
    LET S == {i \in 1..Len(sibs) :
                 /\ IF step = 1 THEN i >= from ELSE i <= from
                 /\ Focusable(p, sibs[i])}
        i == IF S = {} THEN 0
             ELSE CHOOSE k \in S : \A j \in S : IF step = 1 THEN k <= j ELSE k >= j
    IN IF i = 0 THEN p ELSE [p EXCEPT !.focus = sibs[i]]

\* the move branch of _handleKeyUp
MoveFocus(p, w, f) ==
    LET sibs == Siblings(p, p.focus)
        at == indexOf(sibs, p.focus)
        kids == DropdownChildren(w)
    IN IF f.downKey THEN Walk(p, sibs, at + 1, 1)
       ELSE IF f.upKey THEN Walk(p, sibs, at - 1, -1)
       ELSE IF f.bottomKey THEN Walk(p, kids, Len(kids), -1)
       ELSE IF f.topKey THEN Walk(p, kids, 1, 1)
       ELSE p

\* the selected-item branch of _handleKeyUp
MoveSelected(p, w, f, t) ==
    LET n == Len(p.chips[w])
        j == p.focus.idx
    IN IF p.focus.kind = "chip" /\ p.focus.w = w
       THEN IF f.rightKey
            THEN IF j < n THEN [p EXCEPT !.focus = Chip(w, j + 1)] ELSE p
            ELSE IF f.leftKey
            THEN IF j > 1 THEN [p EXCEPT !.focus = Chip(w, j - 1)] ELSE p
            ELSE IF f.bottomKey THEN [p EXCEPT !.focus = Chip(w, n)]
            ELSE IF f.topKey THEN [p EXCEPT !.focus = Chip(w, 1)]
            ELSE IF f.deleteKey
            \* event.target.querySelector('[data-value]') is the chip's icon, or null
            THEN IF t.kind = "chip" /\ Dataset(p, Icon(t.w, t.idx)) # Undefined
                 THEN _unselectOption(p, w, Dataset(p, Icon(t.w, t.idx)))
                 ELSE Throw(p)
            ELSE p
       ELSE IF f.rightKey
       THEN LET p1 == IF p.opened[w] THEN _closeDropdown(p, w) ELSE p
            IN IF n > 0 THEN [p1 EXCEPT !.focus = Chip(w, 1)] ELSE p1
       ELSE IF f.leftKey
       THEN LET p1 == IF p.opened[w] THEN _closeDropdown(p, w) ELSE p
            IN IF n > 0 THEN [p1 EXCEPT !.focus = Chip(w, n)] ELSE p1
       ELSE p

\* _handleKeyUp selecting the focused option on every close key, not on Enter only
_handleKeyUp_AnyCloseKeySelects(p, w, key, t) ==
    LET f == KeyFlags(key)
        p1 == _closeAllLists(p, w)
    IN IF ~f.handled
       THEN p
       ELSE IF p1.opened[w] /\ f.closeKey
       THEN IF IsOwnOption(w, t)
            THEN IF ~DataDisabled(Options(w)[t.idx])
                 THEN LET p2 == _setValue(p1, w, ScalarValue(Dataset(p1, t)), TRUE, FALSE)
                      IN IF p2.err THEN p2 ELSE _closeDropdown(p2, w)
                 ELSE p1
            ELSE _closeDropdown(p1, w)
       ELSE LET p2 == IF f.openKey THEN _openDropdown(p1, w) ELSE p1
                p3 == IF ~p2.err /\ p2.opened[w] /\ f.moveKey
                      THEN MoveFocus(p2, w, f) ELSE p2
            IN IF ~p3.err /\ cfg[w].multiple
                  /\ ((~p3.opened[w] /\ f.selectedMoveKey) \/ f.leftKey \/ f.rightKey)
               THEN MoveSelected(p3, w, f, t)
               ELSE p3

_handleKeyUp(p, w, key, t) ==
    LET f == KeyFlags(key)
        p1 == _closeAllLists(p, w)
    IN IF ~f.handled
       THEN p
       ELSE IF p1.opened[w] /\ f.closeKey
       THEN IF IsOwnOption(w, t) /\ f.selectKey
            THEN IF ~DataDisabled(Options(w)[t.idx])
                 THEN LET p2 == _setValue(p1, w, ScalarValue(Dataset(p1, t)), TRUE, FALSE)
                      IN IF p2.err THEN p2 ELSE _closeDropdown(p2, w)
                 ELSE p1
            ELSE _closeDropdown(p1, w)
       ELSE LET p2 == IF f.openKey THEN _openDropdown(p1, w) ELSE p1
                p3 == IF ~p2.err /\ p2.opened[w] /\ f.moveKey
                      THEN MoveFocus(p2, w, f) ELSE p2
            IN IF ~p3.err /\ cfg[w].multiple
                  /\ ((~p3.opened[w] /\ f.selectedMoveKey) \/ f.leftKey \/ f.rightKey)
               THEN MoveSelected(p3, w, f, t)
               ELSE p3

(***************************************************************************)
(* The keydown handler on document.body.                                   *)
(***************************************************************************)
\* document.activeElement is the trigger or lies within it
WithinSelect(w, e) == e.w = w

_preventDefaultAction(p, w, key, t) ==
    IF WithinSelect(w, p.focus) /\ key = "Tab" /\ p.opened[w]
    THEN IF cfg[w].tabSelect /\ IsOwnOption(w, t)
         THEN IF ~DataDisabled(Options(w)[t.idx])
              THEN LET p2 == _setValue(p, w, ScalarValue(Dataset(p, t)), TRUE, FALSE)
                   IN IF p2.err THEN p2 ELSE _closeDropdown(p2, w)
              ELSE p
         ELSE _closeDropdown(p, w)
    ELSE p

\* event.preventDefault() is called on the keydown
PreventsDefault(p, w, key) ==
    /\ WithinSelect(w, p.focus)
    /\ key # "Tab"
    /\ p.focus # Autocomplete(w)
    /\ KeyFlags(key).handled

(***************************************************************************)
(* Filtering.                                                              *)
(***************************************************************************)
\* textContent of an option node
TextContent(o) == o.label

\* _sortOptions comparing the typed text as it is, not lower-cased
_sortOptions_CaseSensitive(p, w, text) ==
    [p EXCEPT !.acText[w] = text,
              !.hiddenClass[w] =
                  {i \in Nodes(w) :
                      /\ ~includes(toLowerCase(TextContent(Options(w)[i])), text)
                      /\ ~Options(w)[i].groupHeader}]

_sortOptions(p, w, text) ==
    [p EXCEPT !.acText[w] = text,
              !.hiddenClass[w] =
                  {i \in Nodes(w) :
                      /\ ~includes(toLowerCase(TextContent(Options(w)[i])), toLowerCase(text))
                      /\ ~Options(w)[i].groupHeader}]


(***************************************************************************)
(* Construction.                                                           *)
(***************************************************************************)
\* the page once _create has run for every widget: closed, nothing rendered,
\* the click and keyup handlers on each trigger, focus on document.body
Created ==
    [value |-> [w \in Widgets |-> cfg[w].value],
     opened |-> [w \in Widgets |-> FALSE],
     openedClass |-> [w \in Widgets |-> FALSE],
     selectedClass |-> [w \in Widgets |-> {}],
     hiddenClass |-> [w \in Widgets |-> {}],
     chips |-> [w \in Widgets |-> << >>],
     labelText |-> [w \in Widgets |-> << >>],
     acText |-> [w \in Widgets |-> << >>],
     selectClick |-> [w \in Widgets |-> TRUE],
     selectKeyup |-> [w \in Widgets |-> TRUE],
     bodyClick |-> << >>,
     bodyKeyup |-> << >>,
     focus |-> Outside,
     calls |-> [w \in Widgets |-> << >>],
     err |-> FALSE,
     thrown |-> FALSE]

\* the constructors' this._setValue(), widget after widget
RECURSIVE Constructed(_, _)
Constructed(p, w) ==
    IF w > Len(cfg)
    THEN p
    ELSE Constructed([_setValue(p, w, UndefinedValue, FALSE, FALSE) EXCEPT !.err = FALSE],
                     w + 1)

(***************************************************************************)
(* Event dispatch.  A handler that throws ends alone; the listeners after  *)
(* it still run.                                                           *)
(***************************************************************************)
RECURSIVE DispatchClick(_, _, _)
DispatchClick(p, listeners, t) ==
    IF listeners = << >>
    THEN p
    ELSE DispatchClick([_handleClick(p, Head(listeners), t) EXCEPT !.err = FALSE],
                       Tail(listeners), t)

RECURSIVE DispatchKeyUp(_, _, _, _)
DispatchKeyUp(p, listeners, key, t) ==
    IF listeners = << >>
    THEN p
    ELSE DispatchKeyUp([_handleKeyUp(p, Head(listeners), key, t) EXCEPT !.err = FALSE],
                       Tail(listeners), key, t)

RECURSIVE DispatchKeyDown(_, _, _, _)
DispatchKeyDown(p, listeners, key, t) ==
    IF listeners = << >>
    THEN p
    ELSE DispatchKeyDown([_preventDefaultAction(p, Head(listeners), key, t)
                             EXCEPT !.err = FALSE],
                         Tail(listeners), key, t)

\* the click handlers a click on t reaches: the handler on the trigger above
\* t, which stops the propagation, else the handlers on document.body
ClickListeners(p, t) ==
    IF t.w \in Widgets /\ p.selectClick[t.w] THEN <<t.w>> ELSE p.bodyClick

\* the keyup handlers a recognised key released on t reaches: the capturing
\* handlers on document.body, which stop the propagation; else the capturing
\* handler on the dropdown above t; else the handler on the trigger above t
KeyUpListeners(p, t) ==
    IF p.bodyKeyup # << >> THEN p.bodyKeyup
    ELSE IF t.kind \in {"autocomplete", "option"} THEN <<t.w>>
    ELSE IF t.w \in Widgets /\ p.selectKeyup[t.w] THEN <<t.w>>
    ELSE << >>

\* the keydown handlers on document.body, in construction order
KeyDownListeners == [w \in 1..Len(cfg) |-> w]

\* the element a click on t gives focus to: t or its nearest ancestor with a tabindex
ClickFocus(t) ==
    IF t.kind \in {"outside", "autocomplete", "option", "chip"} THEN t
    ELSE IF t.kind = "icon" THEN Chip(t.w, t.idx)
    ELSE Select(t.w)

\* what a user can click: the page outside, a trigger, a chip or its icon,
\* and, while the dropdown shows, the autocomplete field and the options the
\* filter has not hidden
ClickTargets ==
    {Outside}
      \cup {Select(w) : w \in Widgets}
      \cup UNION {{Chip(w, j) : j \in 1..Len(chips[w])} : w \in Widgets}
      \cup UNION {{Icon(w, j) : j \in 1..Len(chips[w])} : w \in Widgets}
      \cup {Autocomplete(w) : w \in {x \in Widgets : cfg[x].autocomplete /\ openedClass[x]}}
      \cup UNION {{OptionNode(w, i) : i \in Nodes(w) \ hiddenClass[w]} :
                     w \in {x \in Widgets : openedClass[x]}}

\* the keys released: one name of each class of the switch
Keys == {"Enter", " ", "Escape", "Tab", "ArrowDown", "ArrowUp", "ArrowLeft",
         "ArrowRight", "Delete", "Home", "End"}

\* where the default action of Tab may move the focus
TabStops ==
    {Outside}
      \cup {Select(w) : w \in Widgets}
      \cup {Autocomplete(w) : w \in {x \in Widgets : cfg[x].autocomplete /\ openedClass[x]}}

\* the texts typed into the autocomplete field
Alphabet == {"l", "N"}
Texts == UNION {[1..n -> Alphabet] : n \in 0..MaxText}

(***************************************************************************)
(* The specification.                                                      *)
(***************************************************************************)
Event(type, key, target, arg) ==
    [type |-> type, key |-> key, target |-> target, arg |-> arg]

\* the page after an event becomes the state
Commit(p, e) ==
    /\ \A w \in Widgets : Len(p.value[w].arr) <= MaxValueLen
    /\ value' = p.value
    /\ opened' = p.opened
    /\ openedClass' = p.openedClass
    /\ selectedClass' = p.selectedClass
    /\ hiddenClass' = p.hiddenClass
    /\ chips' = p.chips
    /\ labelText' = p.labelText
    /\ acText' = p.acText
    /\ selectClick' = p.selectClick
    /\ selectKeyup' = p.selectKeyup
    /\ bodyClick' = p.bodyClick
    /\ bodyKeyup' = p.bodyKeyup
    /\ focus' = p.focus
    /\ onChangeCalls' = p.calls
    /\ threw' = p.thrown
    /\ ev' = e
    /\ prevOpened' = opened
    /\ prevValue' = value
    /\ UNCHANGED cfg

InitPage(configs) ==
    /\ cfg = configs
    /\ LET p == Constructed(Created, 1)
       IN /\ value = p.value
          /\ opened = p.opened
          /\ openedClass = p.openedClass
          /\ selectedClass = p.selectedClass
          /\ hiddenClass = p.hiddenClass
          /\ chips = p.chips
          /\ labelText = p.labelText
          /\ acText = p.acText
          /\ selectClick = p.selectClick
          /\ selectKeyup = p.selectKeyup
          /\ bodyClick = p.bodyClick
          /\ bodyKeyup = p.bodyKeyup
          /\ focus = p.focus
          /\ onChangeCalls = p.calls
          /\ threw = p.thrown
          /\ ev = Event("construct", "", Outside, "")
          /\ prevOpened = p.opened
          /\ prevValue = p.value

\* one widget on the page
Init == \E c \in Configs : InitPage(<<c>>)

\* a click on t: the focus moves, then the handlers run
Click(t) ==
    LET p0 == [Page EXCEPT !.focus = ClickFocus(t)]
    IN Commit(DispatchClick(p0, ClickListeners(p0, t), t),
              Event("click", "", t, ""))

\* a key released while t has the focus
KeyUp(key) ==
    Commit(DispatchKeyUp(Page, KeyUpListeners(Page, focus), key, focus),
           Event("keyup", key, focus, ""))

\* Tab pressed: the keydown handlers run, then the default action moves the focus
KeyDownTab(stop) ==
    LET p1 == DispatchKeyDown(Page, KeyDownListeners, "Tab", focus)
    IN /\ stop # p1.focus
       /\ Commit([p1 EXCEPT !.focus = stop], Event("keydown", "Tab", focus, ""))

\* text typed into the autocomplete field of w
Input(w, text) ==
    /\ cfg[w].autocomplete
    /\ focus = Autocomplete(w)
    /\ Commit(_sortOptions(Page, w, text), Event("input", "", focus, ""))

\* what _unselectOption is called with: an option value, the string a
\* data-value holds for it, or undefined
UnselectArguments(w) ==
    OptionValues(Options(w)) \cup {toString(x) : x \in OptionValues(Options(w))}
      \cup {Undefined}

\* _unselectOption(v) called on the closed multiple widget w
Unselect(w, v) ==
    /\ cfg[w].multiple
    /\ ~opened[w]
    /\ Commit(_unselectOption(Page, w, v), Event("unselect", "", Select(w), v))

Next ==
    \/ \E t \in ClickTargets : Click(t)
    \/ \E key \in Keys : KeyUp(key)
    \/ \E stop \in TabStops : KeyDownTab(stop)
    \/ \E w \in Widgets : \E text \in Texts : Input(w, text)
    \/ \E w \in Widgets :
          \E v \in UnselectArguments(w) : Unselect(w, v)

Spec == Init /\ [][Next]_vars

\* two widgets on the page, constructed one after the other: a multiple one
\* and a single one with the autocomplete field
PairConfigs ==
    {<<Config(<<London>>, TRUE, FALSE, FALSE, <<"remove">>, TRUE, ArrayValue(<< >>)),
       Config(<<London>>, FALSE, TRUE, FALSE, <<"remove">>, TRUE, UndefinedValue)>>}

InitPair == \E c \in PairConfigs : InitPage(c)

SpecPair == InitPair /\ [][Next]_vars


(***************************************************************************)
(* What the last event was, for the properties below.                      *)
(***************************************************************************)
Range(s) == {s[i] : i \in DOMAIN s}
Strings(s) == [k \in 1..Len(s) |-> toString(s[k])]

\* the values the chip nodes of w carry (the data-value of their icons), in DOM order
ChipValues(w) == [j \in 1..Len(chips[w]) |-> DataValue(Options(w)[chips[w][j]])]

\* the last event reached option node i of the opened widget w in a way that
\* selects: a click, Enter released on it, or Tab pressed on it with tabSelect
OptionEvent(w, i) ==
    /\ ev.target = OptionNode(w, i)
    /\ prevOpened[w]
    /\ \/ ev.type = "click"
       \/ ev.type = "keyup" /\ ev.key = "Enter"
       \/ ev.type = "keydown" /\ ev.key = "Tab" /\ cfg[w].tabSelect

\* the last event was a user-driven selection of an option of w
Selection(w) ==
    \E i \in Nodes(w) :
        /\ OptionEvent(w, i)
        /\ ~Options(w)[i].disabled
        /\ Truthy(Options(w)[i].value)

\* the last event was an unselection on w: _unselectOption called with a value
Unselection(w) == ev.type = "unselect" /\ ev.target = Select(w) /\ ev.arg # Undefined

\* two values are the same up to the string form of their elements
SameValue(a, b) ==
    /\ a.kind = b.kind
    /\ toString(a.str) = toString(b.str)
    /\ Strings(a.arr) = Strings(b.arr)

(***************************************************************************)
(* C1.  In a multiple widget the values the chip nodes carry, read in DOM  *)
(* order, equal config.value element for element, after construction and   *)
(* after every selection and unselection.                                  *)
(***************************************************************************)
C1_ChipsEqualValue ==
    \A w \in Widgets :
        cfg[w].multiple =>
            /\ value[w].kind = "array"
            /\ ChipValues(w) = Strings(value[w].arr)

(***************************************************************************)
(* C2.  In a multiple widget whose initial value has no duplicates, no     *)
(* sequence of events makes config.value contain the same value twice.     *)
(***************************************************************************)
NoDuplicates(s) == \A i, j \in DOMAIN s : i # j => s[i] # s[j]

C2_NoDuplicates ==
    \A w \in Widgets :
        (cfg[w].multiple /\ NoDuplicates(cfg[w].value.arr)) => NoDuplicates(value[w].arr)


(***************************************************************************)
(* C3.  In a single widget with options, whenever config.value is the      *)
(* string form of some option's value, exactly one option node carries the *)
(* selected class, it is the node of that option, and the label text is    *)
(* that option's label.                                                    *)
(***************************************************************************)
\* the options whose value has config.value as its string form
OptionsOfValue(w) ==
    {i \in Nodes(w) : value[w].kind = "scalar" /\ toString(Options(w)[i].value) = value[w].str}

C4_Scenario ==
    \A w \in Widgets :
        cfg[w] = ScenarioConfig =>
            /\ ev.type = "construct" => ~threw /\ chips[w] = << >>
            /\ \A i \in Nodes(w) :
                  OptionEvent(w, i) =>
                      /\ value[w].kind = "array"
                      /\ value[w].arr = Append(prevValue[w].arr, Options(w)[i].value)
                      /\ ChipValues(w) = value[w].arr
            /\ Unselection(w) =>
                  /\ value[w].kind = "array"
                  /\ value[w].arr = Without(prevValue[w].arr, ev.arg)
                  /\ ChipValues(w) = value[w].arr

(***************************************************************************)
(* C5.  In a multiple widget _unselectOption called with a value that does *)
(* not occur in config.value leaves config.value and the chips as they     *)
(* were.                                                                   *)
(***************************************************************************)
C5_UnselectAbsent ==
    [][\A w \in Widgets :
          (/\ ev'.type = "unselect"
           /\ ev'.target = Select(w)
           /\ ev'.arg \notin Range(value[w].arr)) =>
              value'[w] = value[w] /\ chips'[w] = chips[w]]_vars

\* _unselectOption has run to its end on a value that was not one of the two selected
C5_Witness ==
    \E w \in Widgets :
        /\ Unselection(w)
        /\ ~threw
        /\ Len(prevValue[w].arr) = 2
        /\ ev.arg \notin Range(prevValue[w].arr)
        /\ Len(chips[w]) = 2

(***************************************************************************)
(* C6.  onChange is not invoked during construction; each user-driven      *)
(* selection or unselection invokes it exactly once, with the resulting    *)
(* config.value; and no event invokes it more than once.                   *)
(***************************************************************************)
C6_OnChange ==
    \A w \in Widgets :
        cfg[w].onChange =>
            /\ ev.type = "construct" => onChangeCalls[w] = << >>
            /\ Len(onChangeCalls[w]) <= 1
            /\ (Selection(w) \/ Unselection(w)) =>
                  /\ Len(onChangeCalls[w]) = 1
                  /\ SameValue(onChangeCalls[w][1], value[w])

(***************************************************************************)
(* C7.  Escape released right after the dropdown of a closed widget was    *)
(* opened closes it: opened is false, the trigger has lost the opened      *)
(* class, the focus is on the trigger, and config.value is as it was       *)
(* before the opening.                                                     *)
(***************************************************************************)
\* the last event opened the closed widget w
JustOpened(w) == opened[w] /\ ~prevOpened[w] /\ ev.type \in {"click", "keyup"}

C7_OpenThenEscape ==
    [][\A w \in Widgets :
          (JustOpened(w) /\ ev'.type = "keyup" /\ ev'.key = "Escape") =>
              /\ ~opened'[w]
              /\ ~openedClass'[w]
              /\ focus' = Select(w)
              /\ value'[w] = prevValue[w]]_vars

\* Escape was released on the first option, where the opening had put the focus
C7_Witness ==
    \E w \in Widgets :
        /\ ev.type = "keyup"
        /\ ev.key = "Escape"
        /\ ev.target = OptionNode(w, 1)
        /\ prevOpened[w]
        /\ ~opened[w]
        /\ focus = Select(w)

(***************************************************************************)
(* C8.  After every input event with text t an option node is hidden       *)
(* exactly when it is no group header and its text does not contain t,     *)
(* letter case ignored; group headers are never hidden and the empty text  *)
(* hides nothing.                                                          *)
(***************************************************************************)
\* t occurs in s at some offset, letter for letter up to case
ContainsIgnoringCase(s, t) ==
    \E off \in 0..Len(s) :
        /\ off + Len(t) <= Len(s)
        /\ \A k \in 1..Len(t) : LowerChar(s[off + k]) = LowerChar(t[k])

C8_Filter ==
    \A w \in Widgets :
        /\ \A i \in Nodes(w) :
              i \in hiddenClass[w] <=>
                  /\ ~Options(w)[i].groupHeader
                  /\ ~ContainsIgnoringCase(Options(w)[i].label, acText[w])
        /\ acText[w] = << >> => hiddenClass[w] = {}

\* a text has hidden one option and kept another, whose label contains it
\* only when letter case is ignored, and the group header, which does not
\* contain it
C8_Witness ==
    \E w \in Widgets :
        /\ ev.type = "input"
        /\ acText[w] # << >>
        /\ \E i, j, h \in Nodes(w) :
              /\ i \in hiddenClass[w]
              /\ j \notin hiddenClass[w]
              /\ ~Options(w)[j].groupHeader
              /\ ~includes(Options(w)[j].label, acText[w])
              /\ Options(w)[h].groupHeader
              /\ h \notin hiddenClass[w]
              /\ ~ContainsIgnoringCase(Options(w)[h].label, acText[w])

(***************************************************************************)
(* C9.  A click on a disabled option of the opened widget, Enter released  *)
(* while it has the focus, and Tab pressed while it has the focus with     *)
(* tabSelect set leave config.value and the rendered selection as they     *)
(* were, do not invoke onChange and raise no error.                        *)
(***************************************************************************)
C9_DisabledIgnored ==
    [][\A w \in Widgets : \A i \in Nodes(w) :
          (/\ Options(w)[i].disabled
           /\ ev'.target = OptionNode(w, i)
           /\ \/ ev'.type = "click" /\ opened[w]
              \/ ev'.type = "keyup" /\ ev'.key = "Enter"
              \/ ev'.type = "keydown" /\ ev'.key = "Tab" /\ cfg[w].tabSelect) =>
              /\ value'[w] = value[w]
              /\ chips'[w] = chips[w]
              /\ selectedClass'[w] = selectedClass[w]
              /\ labelText'[w] = labelText[w]
              /\ onChangeCalls'[w] = << >>
              /\ ~threw']_vars

\* Tab was pressed, with tabSelect, on a disabled option of the opened widget
C9_Witness ==
    \E w \in Widgets : \E i \in Nodes(w) :
        /\ Options(w)[i].disabled
        /\ OptionEvent(w, i)
        /\ ev.type = "keydown"
        /\ value[w] = prevValue[w]

(***************************************************************************)
(* C10.  No sequence of clicks and keys makes the value of a group-header  *)
(* option become, or join, config.value.                                   *)
(***************************************************************************)
\* v is config.value x, or one of its elements
InValue(x, v) == (x.kind = "scalar" /\ x.str = v) \/ v \in Range(x.arr)

C10_HeaderNotSelectable ==
    \A w \in Widgets : \A i \in Nodes(w) :
        (Options(w)[i].groupHeader /\ InValue(value[w], toString(Options(w)[i].value))) =>
            InValue(cfg[w].value, toString(Options(w)[i].value))


(***************************************************************************)
(* C11.  With two widgets on the page, after every event has been          *)
(* dispatched to all its handlers at most one trigger carries the opened   *)
(* class.                                                                  *)
(***************************************************************************)
C11_OneOpenedClass ==
    \A w, x \in Widgets : (openedClass[w] /\ openedClass[x]) => w = x

\* both widgets have been opened and not closed since, and only the one
\* opened last shows its dropdown
C11_Witness ==
    /\ Len(cfg) = 2
    /\ opened[1] /\ opened[2]
    /\ openedClass[2] /\ ~openedClass[1]
    /\ ev.type \in {"click", "keyup"}

(***************************************************************************)
(* C12.  A single widget with options and no initial value has, right      *)
(* after construction, no option node with the selected class and an empty *)
(* label, is closed, and has not invoked onChange.                         *)
(***************************************************************************)
\* w is a single widget with options and no value, just constructed
ConstructedWithoutValue(w) ==
    /\ ev.type = "construct"
    /\ ~cfg[w].multiple
    /\ Len(Options(w)) > 0
    /\ cfg[w].value = UndefinedValue

C12_NothingSelected ==
    \A w \in Widgets :
        ConstructedWithoutValue(w) =>
            /\ selectedClass[w] = {}
            /\ labelText[w] = << >>
            /\ chips[w] = << >>
            /\ ~opened[w]
            /\ ~openedClass[w]
            /\ onChangeCalls[w] = << >>
            /\ ~threw

\* such a widget, whose first option could have been selected, with onChange given
C12_Witness ==
    \E w \in Widgets :
        /\ ConstructedWithoutValue(w)
        /\ cfg[w].onChange
        /\ Truthy(Options(w)[1].value)
        /\ ~Options(w)[1].disabled
        /\ value[w] = UndefinedValue

(***************************************************************************)
(* C13.  In every closed state the click handler and the keyup handler of  *)
(* the widget are registered on its trigger and neither is registered on   *)
(* document.body, as right after construction.                             *)
(***************************************************************************)
C13_ListenersRestored ==
    \A w \in Widgets :
        ~opened[w] =>
            /\ selectClick[w]
            /\ selectKeyup[w]
            /\ w \notin Range(bodyClick)
            /\ w \notin Range(bodyKeyup)

(***************************************************************************)
(* C14.  A click on a disabled option node of the opened widget selects    *)
(* nothing and leaves the widget closed: opened is false, the opened class *)
(* is removed and the click handler is back on the trigger.                *)
(***************************************************************************)
\* the last event was a click on a disabled option node of the opened widget w
DisabledClicked(w) ==
    /\ ev.type = "click"
    /\ prevOpened[w]
    /\ \E i \in Nodes(w) : ev.target = OptionNode(w, i) /\ Options(w)[i].disabled

C14_Original ==
    \A w \in Widgets :
        DisabledClicked(w) =>
            /\ value[w] = prevValue[w]
            /\ ~opened[w]
            /\ ~openedClass[w]
            /\ selectClick[w]

\* C14 as amended: the click selects nothing and the widget stays opened, the
\* class on its trigger and its click handler on document.body
C14_StaysOpened ==
    \A w \in Widgets :
        DisabledClicked(w) =>
            /\ value[w] = prevValue[w]
            /\ onChangeCalls[w] = << >>
            /\ ~threw
            /\ opened[w]
            /\ openedClass[w]
            /\ ~selectClick[w]
            /\ w \in Range(bodyClick)
            /\ focus = ev.target

\* the disabled option was clicked while another option was selected
C14_Witness ==
    \E w \in Widgets :
        /\ DisabledClicked(w)
        /\ opened[w]
        /\ selectedClass[w] # {}
        /\ ev.target.idx \notin selectedClass[w]

(***************************************************************************)
(* C15.  When a close key (Enter, Escape, Tab, ArrowLeft, ArrowRight) is   *)
(* released on the opened widget, the option that has the focus, if there  *)
(* is one and it is not disabled, becomes the selected value (appended     *)
(* when multiple), and the widget is then closed.                          *)
(***************************************************************************)
CloseKeys == {"Enter", "Escape", "Tab", "ArrowLeft", "ArrowRight"}

\* the last event was a close key released on the opened widget w
CloseKeyReleased(w) == ev.type = "keyup" /\ ev.key \in CloseKeys /\ prevOpened[w]

\* config.value of w once option i was selected from prevValue[w]
Selected(w, i) ==
    IF cfg[w].multiple
    THEN ArrayValue(Append(prevValue[w].arr, toString(Options(w)[i].value)))
    ELSE ScalarValue(toString(Options(w)[i].value))

TabPressed(w) ==
    ev.type = "keydown" /\ ev.key = "Tab" /\ WithinSelect(w, ev.target) /\ prevOpened[w]

C16_TabCloses ==
    \A w \in Widgets :
        TabPressed(w) =>
            /\ ~opened[w]
            /\ ~openedClass[w]
            /\ value[w] = IF /\ cfg[w].tabSelect
                             /\ IsOwnOption(w, ev.target)
                             /\ ~Options(w)[ev.target.idx].disabled
                             /\ Truthy(Options(w)[ev.target.idx].value)
                          THEN Selected(w, ev.target.idx)
                          ELSE prevValue[w]
            /\ ~PreventsDefault([focus |-> ev.target], w, ev.key)

(***************************************************************************)
(* C17.  When a move key is released on the opened widget the focus moves  *)
(* to an option node only: the nearest following (down) or preceding (up)  *)
(* sibling option, or the first (Home) or last (End) option, that is not   *)
(* selected, hidden, a group header or disabled; when there is none the    *)
(* focus stays where it was.  It never moves onto the autocomplete field.  *)
(***************************************************************************)
MoveKeys == {"ArrowDown", "ArrowUp", "Home", "End"}

\* the option nodes of w a move key may give the focus to
Eligible(w) ==
    {i \in Nodes(w) : /\ i \notin selectedClass[w]
                      /\ i \notin hiddenClass[w]
                      /\ ~Options(w)[i].groupHeader
                      /\ ~Options(w)[i].disabled}

\* the position of element e among the option nodes of w: the autocomplete
\* field comes before them all
Position(w, e) ==
    IF e = Autocomplete(w) THEN 0 ELSE IF IsOwnOption(w, e) THEN e.idx ELSE -1

\* the option nodes the key leads to from element e, nearest first
Candidates(w, key, e) ==
    CASE key = "ArrowDown" -> {i \in Eligible(w) : Position(w, e) >= 0 /\ i > Position(w, e)}
      [] key = "ArrowUp" -> {i \in Eligible(w) : Position(w, e) >= 0 /\ i < Position(w, e)}
      [] OTHER -> Eligible(w)

Nearest(S, key) ==
    IF key \in {"ArrowDown", "Home"}
    THEN CHOOSE i \in S : \A j \in S : i <= j
    ELSE CHOOSE i \in S : \A j \in S : i >= j

C17_MoveToOption ==
    \A w \in Widgets :
        (ev.type = "keyup" /\ ev.key \in MoveKeys /\ prevOpened[w]) =>
            LET S == Candidates(w, ev.key, ev.target)
            IN focus = IF S = {} THEN ev.target ELSE OptionNode(w, Nearest(S, ev.key))

(***************************************************************************)
(* C18.  In a multiple widget with at least one chip, when ArrowRight      *)
(* (ArrowLeft) is released while the focus is in the widget and not on a   *)
(* chip, the dropdown is closed if it was open and the focus is then on    *)
(* the first (last) chip, whether the widget was closed or opened.         *)
(***************************************************************************)
\* the last event was a horizontal arrow released within the multiple widget
\* w, which has chips, while no chip had the focus
ArrowOffChips(w) ==
    /\ ev.type = "keyup"
    /\ ev.key \in {"ArrowLeft", "ArrowRight"}
    /\ cfg[w].multiple
    /\ chips[w] # << >>
    /\ WithinSelect(w, ev.target)
    /\ ev.target.kind # "chip"

C18_ArrowToChip ==
    \A w \in Widgets :
        ArrowOffChips(w) =>
            /\ ~opened[w]
            /\ focus = Chip(w, IF ev.key = "ArrowRight" THEN 1 ELSE Len(chips[w]))

(***************************************************************************)
(* C19.  In a closed multiple widget with the focus on a chip, a delete    *)
(* key released removes one occurrence of that chip's value from           *)
(* config.value, keeps the other elements in their order, renders one chip *)
(* fewer and invokes onChange once with the new sequence; ArrowLeft and    *)
(* ArrowRight there change neither config.value nor the opened state.      *)
(***************************************************************************)
\* the last event was key released on chip j of the closed multiple widget w
KeyOnChip(w, j, key) ==
    /\ ev.type = "keyup"
    /\ ev.key = key
    /\ ev.target = Chip(w, j)
    /\ cfg[w].multiple
    /\ ~prevOpened[w]
    /\ j \in 1..Len(prevValue[w].arr)

C19_DeleteChip ==
    \A w \in Widgets : \A j \in 1..MaxValueLen :
        /\ KeyOnChip(w, j, "Delete") =>
              /\ value[w] = ArrayValue(Without(prevValue[w].arr, prevValue[w].arr[j]))
              /\ Len(value[w].arr) = Len(prevValue[w].arr) - 1
              /\ ChipValues(w) = Strings(value[w].arr)
              /\ cfg[w].onChange => onChangeCalls[w] = <<value[w]>>
        /\ (KeyOnChip(w, j, "ArrowLeft") \/ KeyOnChip(w, j, "ArrowRight")) =>
              /\ value[w] = prevValue[w]
              /\ ~opened[w]

(***************************************************************************)
(* C20.  In a multiple widget constructed with a sequence of option values *)
(* config.value is in every reachable state a sequence, and each of its    *)
(* elements is the value of some configured option.                        *)
(***************************************************************************)
C20_ValuesOfOptions ==
    \A w \in Widgets :
        (/\ cfg[w].multiple
         /\ cfg[w].value.kind = "array"
         /\ Range(cfg[w].value.arr) \subseteq OptionValues(Options(w))) =>
            /\ value[w].kind = "array"
            /\ Range(value[w].arr) \subseteq OptionValues(Options(w))

(***************************************************************************)
(* C21.  With two widgets on the page, in every reachable state at most    *)
(* one of them has its click handler or its keyup handler registered on    *)
(* document.body.                                                          *)
(***************************************************************************)
\* the widgets with a handler on document.body
OnBody == {w \in Widgets : w \in Range(bodyClick) \/ w \in Range(bodyKeyup)}

C21_OneOnBody == \A w, x \in OnBody : w = x

(***************************************************************************)
(* C22.  For every widget, after every event, opened is true exactly when  *)
(* its trigger carries the opened class, and its click handler is on       *)
(* document.body exactly when opened is true; with one widget and with     *)
(* several.                                                                *)
(***************************************************************************)
C22_OpenedAgrees ==
    \A w \in Widgets :
        /\ opened[w] <=> openedClass[w]
        /\ opened[w] <=> w \in Range(bodyClick)

(***************************************************************************)
(* C23.  While a widget is closed, a key event whose target lies outside   *)
(* the widget changes nothing in it: it stays closed, and config.value,    *)
(* the focus and the opened class are as they were; in the initial state   *)
(* and after any number of open/close cycles.                              *)
(***************************************************************************)
\* the last event was a key event outside the closed widget w
KeyOutside(w) ==
    /\ ev.type \in {"keyup", "keydown"}
    /\ ~WithinSelect(w, ev.target)
    /\ ~prevOpened[w]

C23_KeyOutsideIgnored ==
    \A w \in Widgets :
        KeyOutside(w) =>
            /\ ~opened[w]
            /\ ~openedClass[w]
            /\ value[w] = prevValue[w]
            /\ onChangeCalls[w] = << >>
            \* the default action of Tab moves the focus, the widget does not
            /\ ev.type = "keyup" => focus = ev.target

====
